---- MODULE Spec2Model ----
(***************************************************************************)
(* Lighting-state classifier (server/light_detection.py, LightDetector)    *)
(* and room automation controller (server/smart_lighting_automation.py,    *)
(* SmartLightingController) of the owl server.                             *)
(*                                                                         *)
(* Numbers: brightness is the 0..255 grey-level mean of a frame; the       *)
(* bright-pixel ratio is kept in percent; vote weights are kept in tenths  *)
(* (0.8 -> 8) and averaged weights in sixtieths (0.8 -> 48), which is exact *)
(* for groups of one, two or three votes.  Time is in seconds.             *)
(***************************************************************************)
EXTENDS Integers, Sequences, FiniteSets, TLC

VARIABLES
    \* ---- LightDetector instance (the controller's self.light_detector)
    config,                  \* self.config: the fields that vary between instances
    current_state,           \* self.current_state: "none" (None), "on", "off"
    frames_in_current_state, \* self.frames_in_current_state
    brightness_history,      \* self.brightness_history
    detection_stats,         \* self.detection_stats (the two counters)
    results,                 \* what analyze_frame returned, call by call (observer)
    \* ---- SmartLightingController
    current_lighting_state,  \* self.current_lighting_state[camera_id]
    last_motion_time,        \* self.last_motion_time[camera_id]
    lights_on,               \* self.current_lighting_state['lights_on']
    pending_notification,    \* self.current_lighting_state['pending_notification']
    auto_turn_off_scheduled, \* self.current_lighting_state['auto_turn_off_scheduled']
    timers,                  \* the threading.Timer objects created so far
    now,                     \* time.time()
    notified,                \* notifications delivered so far (observer)
    seen,                    \* per camera: presence so far and 'on' commands (observer)
    last_op,                 \* the operation that ran last: its inputs, the actuator
                             \* commands it issued and the audit rows it wrote (observer)
    pc,                      \* where the thread handling a response and the Timer
                             \* thread running auto_turn_off are in their code
    \* ---- the frame loop of process_video_yolo / process_video_opencv
    sampler                  \* frame_number, last_processed_frame, prev_frame, and the
                             \* decision taken on the last frame read (observer)

detVars == <<config, current_state, frames_in_current_state, brightness_history,
             detection_stats>>
ctlVars == <<current_lighting_state, last_motion_time, lights_on, pending_notification,
             auto_turn_off_scheduled, timers, now, notified, seen, last_op, pc, sampler>>
vars == <<config, current_state, frames_in_current_state, brightness_history,
          detection_stats, results, current_lighting_state, last_motion_time, lights_on,
          pending_notification, auto_turn_off_scheduled, timers, now, notified, seen,
          last_op, pc, sampler>>

----------------------------------------------------------------------------
(* Bounds of the model *)

\* frames analysed by one detector in the classifier specification
MaxFrames == 5

----------------------------------------------------------------------------
(* LightDetector configuration *)

brightness_threshold_low == 50
brightness_threshold_high == 120
brightness_hysteresis == 15
bright_pixel_ratio_on == 15
bright_pixel_ratio_off == 5
brightness_change_threshold == 30
hist_bright_from == 168

AllMethods == {"brightness", "histogram", "temporal"}

\* create_light_detector_config(): what every detector of the server is built with
DefaultConfig ==
    [brightness_threshold_low |-> brightness_threshold_low,
     brightness_threshold_high |-> brightness_threshold_high,
     brightness_hysteresis |-> brightness_hysteresis,
     stability_frames |-> 3, temporal_window_size |-> 5, detection_methods |-> AllMethods]

\* LightDetector(config) merges any dictionary over the defaults
DetectorConfigs ==
    { DefaultConfig,
      [DefaultConfig EXCEPT !.stability_frames = 2] }

None == "none"

\* A frame as the classifier sees it: its roi_weighted_brightness (the mean grey
\* level, no ROI configured) and the share of pixels in the bright histogram bins.
\* A share r of pixels at or above hist_bright_from bounds the mean from both sides.
FrameOk(b, r) ==
    /\ b * 100 >= hist_bright_from * r
    /\ b * 100 <= (hist_bright_from - 1) * (100 - r) + 255 * r

Frames ==
    { f \in [brightness : {10, 45, 80, 130, 200}, bright_ratio : {0, 10, 20, 100}] :
        /\ FrameOk(f.brightness, f.bright_ratio)
        /\ f.bright_ratio = (CASE f.brightness = 10 -> 0
                               [] f.brightness = 80 -> 10
                               [] f.brightness = 130 -> 0
                               [] f.brightness = 200 -> 100
                               [] OTHER -> f.bright_ratio)
        /\ f.bright_ratio # 10 \/ f.brightness = 80 }

\* the share of pixels a frame of uniform grey level b puts in the bright bins
UniformFrame(b) == [brightness |-> b, bright_ratio |-> IF b >= hist_bright_from THEN 100 ELSE 0]

----------------------------------------------------------------------------
(* LightDetector *)

Abs(x) == IF x < 0 THEN -x ELSE x

RECURSIVE SumSeq(_)
SumSeq(s) == IF s = <<>> THEN 0 ELSE Head(s) + SumSeq(Tail(s))

\* the append without the eviction
PushHistoryNoEviction(h, b, cfg) == Append(h, b)

\* brightness_history after the append and the eviction of detect_temporal_changes
PushHistory(h, b, cfg) ==
    LET a == Append(h, b)
    IN  IF Len(a) > cfg.temporal_window_size THEN Tail(a) ELSE a

\* n^2 times the population variance of the window: 0 exactly when np.std is 0
StabilityScore(h) ==
    LET n == Len(h)
        sq == [i \in 1..n |-> h[i] * h[i]]
    IN  n * SumSeq(sq) - SumSeq(h) * SumSeq(h)

\* detect_temporal_changes, on the history as it is after the push
detect_temporal_changes(h, cfg) ==
    LET n == Len(h)
        change == IF n >= 2 THEN h[n] - h[n - 1] ELSE 0
        significant == n >= 2 /\ Abs(change) > brightness_change_threshold
    IN  [brightness_change |-> change,
         significant_change |-> significant,
         change_direction |-> IF ~significant THEN "none"
                              ELSE IF change > 0 THEN "increase" ELSE "decrease",
         stability_score |-> IF n >= cfg.temporal_window_size THEN StabilityScore(h) ELSE 0]

\* Method 1 without the hysteresis margin
BrightnessVoteNoHysteresis(f, cur, cfg) ==
    IF f.brightness < cfg.brightness_threshold_low THEN <<"off", 8>>
    ELSE IF f.brightness > cfg.brightness_threshold_high THEN <<"on", 8>>
    ELSE IF cur # None THEN <<cur, 3>>
    ELSE <<"unknown", 1>>

\* Method 1 of classify_lighting_state
BrightnessVote(f, cur, cfg) ==
    LET threshold_high == IF cur = "off"
                          THEN cfg.brightness_threshold_high + cfg.brightness_hysteresis
                          ELSE cfg.brightness_threshold_high
        threshold_low == IF cur = "on"
                         THEN cfg.brightness_threshold_low - cfg.brightness_hysteresis
                         ELSE cfg.brightness_threshold_low
    IN  IF f.brightness < threshold_low THEN <<"off", 8>>
        ELSE IF f.brightness > threshold_high THEN <<"on", 8>>
        ELSE IF cur # None THEN <<cur, 3>>
        ELSE <<"unknown", 1>>

\* Method 2: votes cast (none when the ratio lies between the two thresholds)
HistogramVotes(f) ==
    IF f.bright_ratio > bright_pixel_ratio_on THEN << <<"on", 7>> >>
    ELSE IF f.bright_ratio < bright_pixel_ratio_off THEN << <<"off", 7>> >>
    ELSE <<>>

\* Method 3 voting with the weight of the histogram method
TemporalVotesLight(tc) ==
    IF ~tc.significant_change THEN <<>>
    ELSE IF tc.change_direction = "increase" THEN << <<"on", 7>> >>
    ELSE << <<"off", 7>> >>

\* Method 3
TemporalVotes(tc) ==
    IF ~tc.significant_change THEN <<>>
    ELSE IF tc.change_direction = "increase"
            /\ tc.brightness_change > brightness_change_threshold
         THEN << <<"on", 9>> >>
    ELSE IF tc.change_direction = "decrease"
            /\ Abs(tc.brightness_change) > brightness_change_threshold
         THEN << <<"off", 9>> >>
    ELSE <<>>

CastVotes(f, tc, cur, cfg) ==
    (IF "brightness" \in cfg.detection_methods THEN <<BrightnessVote(f, cur, cfg)>> ELSE <<>>)
    \o (IF "histogram" \in cfg.detection_methods THEN HistogramVotes(f) ELSE <<>>)
    \o (IF "temporal" \in cfg.detection_methods THEN TemporalVotes(tc) ELSE <<>>)

\* the weights cast for state s, in the order cast
WeightsFor(votes, s) ==
    LET idx == SelectSeq([i \in 1..Len(votes) |-> i], LAMBDA i : votes[i][1] = s)
    IN  [k \in 1..Len(idx) |-> votes[idx[k]][2]]

\* the sum of a group of weights instead of its mean, in sixtieths
SummedScore(ws) == SumSeq(ws) * 6

\* np.mean of a group of weights, in sixtieths
MeanScore(ws) == (SumSeq(ws) * 6) \div Len(ws)

\* the keys of state_votes in insertion order: each state at its first vote
VotedStates(votes) ==
    LET idx == SelectSeq([i \in 1..Len(votes) |-> i],
                         LAMBDA i : \A j \in 1..(i - 1) : votes[j][1] # votes[i][1])
    IN  [k \in 1..Len(idx) |-> votes[idx[k]][1]]

\* the last of the best-scored states instead of the first
LastBestState(votes) ==
    LET keys == VotedStates(votes)
        score(k) == MeanScore(WeightsFor(votes, keys[k]))
        best == CHOOSE k \in 1..Len(keys) :
                    /\ \A j \in 1..Len(keys) : score(j) <= score(k)
                    /\ \A j \in (k + 1)..Len(keys) : score(j) < score(k)
    IN  [state |-> keys[best], confidence |-> score(best)]

\* max(state_scores.items(), key=score): the first of the best-scored states
BestState(votes) ==
    LET keys == VotedStates(votes)
        score(k) == MeanScore(WeightsFor(votes, keys[k]))
        best == CHOOSE k \in 1..Len(keys) :
                    /\ \A j \in 1..Len(keys) : score(j) <= score(k)
                    /\ \A j \in 1..(k - 1) : score(j) < score(k)
    IN  [state |-> keys[best], confidence |-> score(best)]

classify_lighting_state(f, tc, cur, cfg) ==
    LET votes == CastVotes(f, tc, cur, cfg)
        best == BestState(votes)
    IN  IF votes = <<>> THEN [state |-> "unknown", confidence |-> 0, votes |-> votes]
        ELSE [state |-> best.state, confidence |-> best.confidence, votes |-> votes]

\* a test that confirms on the frame that brings the counter to stability_frames
CommitOnReaching(counter, cfg) == counter + 1 >= cfg.stability_frames

\* the test that confirms a state change in analyze_frame
CommitReady(counter, cfg) == counter >= cfg.stability_frames

\* the counter after a frame classified as the current state
CounterOnSameState(counter) == 0

\* an 'unknown' frame that resets the counter
OnUnknownResetting(cur, counter, stats) ==
    [current_state |-> cur, frames |-> 0, stats |-> stats]

\* "if new_state != 'unknown':" has no else branch: the fields stay as they are
OnUnknown(cur, counter, stats) ==
    [current_state |-> cur, frames |-> counter, stats |-> stats]

\* "Update state tracking" without the test for 'unknown'
UpdateStateTrackingAnyState(new_state, cur, counter, stats, cfg) ==
    IF cur # new_state THEN
        IF CommitReady(counter, cfg) THEN
            [current_state |-> new_state, frames |-> 1,
             stats |-> [stats EXCEPT !.state_changes_detected = @ + 1]]
        ELSE
            [current_state |-> cur, frames |-> counter + 1, stats |-> stats]
    ELSE
        [current_state |-> cur, frames |-> CounterOnSameState(counter), stats |-> stats]

\* "Update state tracking" of analyze_frame: the detector fields after a frame
\* whose instantaneous classification is new_state
UpdateStateTracking(new_state, cur, counter, stats, cfg) ==
    IF new_state = "unknown" THEN
        OnUnknown(cur, counter, stats)
    ELSE IF cur # new_state THEN
        IF CommitReady(counter, cfg) THEN
            [current_state |-> new_state, frames |-> 1,
             stats |-> [stats EXCEPT !.state_changes_detected = @ + 1]]
        ELSE
            [current_state |-> cur, frames |-> counter + 1, stats |-> stats]
    ELSE
        [current_state |-> cur, frames |-> CounterOnSameState(counter), stats |-> stats]

\* analyze_frame on frame f by a detector whose fields are d and whose
\* configuration is cfg: the new detector fields and the returned result
AnalyzeFrom(d, f, cfg) ==
    LET h == PushHistory(d.history, f.brightness, cfg)
        tc == detect_temporal_changes(h, cfg)
        c == classify_lighting_state(f, tc, d.current_state, cfg)
        u == UpdateStateTracking(c.state, d.current_state, d.frames, d.stats, cfg)
    IN  [history |-> h,
         current_state |-> u.current_state,
         frames |-> u.frames,
         stats |-> [u.stats EXCEPT !.total_frames_analyzed = @ + 1],
         result |-> [frame |-> f,
                     classification |-> c.state,
                     state_confidence |-> c.confidence,
                     lighting_state |-> u.current_state,
                     previous_state |-> d.current_state,
                     state_changed |-> (d.current_state # u.current_state
                                        /\ u.current_state # None),
                     temporal_changes |-> tc,
                     votes |-> c.votes]]

\* the fields of the detector as they are now
Detector ==
    [history |-> brightness_history,
     current_state |-> current_state,
     frames |-> frames_in_current_state,
     stats |-> detection_stats]

\* analyze_frame on frame f: the new detector fields and the returned result
AnalyzeOutcome(f) == AnalyzeFrom(Detector, f, config)

\* the assignments analyze_frame makes to the detector
ApplyAnalyze(o) ==
    /\ brightness_history' = o.history
    /\ current_state' = o.current_state
    /\ frames_in_current_state' = o.frames
    /\ detection_stats' = o.stats
    /\ UNCHANGED config

InitDetector ==
    /\ current_state = None
    /\ frames_in_current_state = 0
    /\ brightness_history = <<>>
    /\ detection_stats = [total_frames_analyzed |-> 0, state_changes_detected |-> 0]
    /\ results = <<>>


----------------------------------------------------------------------------
(* Adaptive frame sampler: the head of the frame loop of process_video_yolo  *)
(* and process_video_opencv (server/video_processor.py), with                *)
(* USE_MOTION_DETECTION = True.  Ratios are kept in percent.                 *)

\* frames read from one video
MaxVideoFrames == 32

FRAME_INTERVAL == 30
MOTION_THRESHOLD == 5
MIN_FRAME_GAP == 5
\* the byte threshold of cv2.threshold(frame_diff, 25, 255, THRESH_BINARY)
diff_threshold == 25

\* the down-scaled grey frames of a video: a few scenes of two pixels each
SmallFrames == { <<0, 0>>, <<20, 20>>, <<40, 40>>, <<0, 40>> }

\* np.count_nonzero(thresh) / thresh.size for cv2.absdiff(a, b) thresholded
MotionScore(a, b) ==
    (Cardinality({ i \in 1..Len(a) : Abs(a[i] - b[i]) > diff_threshold }) * 100)
        \div Len(a)

\* "frame_number - last_processed_frame > MIN_FRAME_GAP"
GapExceeded(frame_number, last_processed_frame) ==
    frame_number - last_processed_frame > MIN_FRAME_GAP

\* "frame_number - last_processed_frame >= MIN_FRAME_GAP"
GapReached(frame_number, last_processed_frame) ==
    frame_number - last_processed_frame >= MIN_FRAME_GAP

\* "prev_frame = None": no frame yet
NoFrame == <<>>

\* "frame_number - last_processed_frame > FRAME_INTERVAL"
RefreshOverdue(frame_number, last_processed_frame) ==
    frame_number - last_processed_frame > FRAME_INTERVAL

\* "frame_number - last_processed_frame >= FRAME_INTERVAL"
RefreshDue(frame_number, last_processed_frame) ==
    frame_number - last_processed_frame >= FRAME_INTERVAL

\* the loop variables before the first frame is read; decided holds the decision
\* on the last frame read, once there is one
InitSampler ==
    [frame_number |-> 0,
     last_processed_frame |-> -MIN_FRAME_GAP,
     prev_frame |-> NoFrame,
     sampled_frame |-> NoFrame,
     decided |-> <<>>]

\* one iteration of "while cap.isOpened()" on the frame just read, down-scaled to
\* small_frame: the decision, then frame_number += 1 on either path
SampleFrame(small_frame) ==
    /\ sampler.frame_number < MaxVideoFrames
    /\ LET frame_number == sampler.frame_number
           last_processed_frame == sampler.last_processed_frame
           prev_frame == sampler.prev_frame
           checks_motion == /\ prev_frame # NoFrame
                            /\ GapReached(frame_number, last_processed_frame)
           motion_score == IF checks_motion THEN MotionScore(small_frame, prev_frame) ELSE 0
           process_this_frame ==
               IF checks_motion
               THEN \/ motion_score > MOTION_THRESHOLD
                    \/ RefreshDue(frame_number, last_processed_frame)
               ELSE \/ frame_number = 0
                    \/ RefreshDue(frame_number, last_processed_frame)
       IN  sampler' =
               [frame_number |-> frame_number + 1,
                last_processed_frame |-> IF process_this_frame THEN frame_number
                                         ELSE last_processed_frame,
                prev_frame |-> small_frame,
                \* the frame handed to the detection pipeline last
                sampled_frame |-> IF process_this_frame THEN small_frame
                                  ELSE sampler.sampled_frame,
                decided |-> << [frame_number |-> frame_number,
                             last_processed_frame |-> last_processed_frame,
                             checks_motion |-> checks_motion,
                             motion_score |-> motion_score,
                             \* the ratio against the frame read just before
                             since_previous |->
                                 IF prev_frame # NoFrame
                                 THEN MotionScore(small_frame, prev_frame) ELSE 0,
                             \* the ratio against the frame processed last
                             since_sampled |->
                                 IF sampler.sampled_frame # NoFrame
                                 THEN MotionScore(small_frame, sampler.sampled_frame)
                                 ELSE 0,
                             process_this_frame |-> process_this_frame] >>]
    /\ UNCHANGED <<detVars, results, current_lighting_state, last_motion_time, lights_on,
                   pending_notification, auto_turn_off_scheduled, timers, now, notified,
                   seen, last_op, pc>>

NextSampler == \E small_frame \in SmallFrames : SampleFrame(small_frame)

----------------------------------------------------------------------------
(* SmartLightingController *)

\* 'person_timeout' of default_config, in seconds
person_timeout == 300
\* 'user_response_timeout' as the callers configure it, in seconds
user_response_timeout == 180

\* time.time() when the controller is constructed, and how the clock advances
StartTime == 1000
TickStep == 60
MaxTicks == 3
\* frames handed to process_frame, timers created, notifications sent
MaxCtlFrames == 5
MaxTimers == 2
MaxNotifications == 2

Cameras == {"living_room", "kitchen"}

\* frames the controller is fed: a dark room and a lit room
CtlFrames == { f \in Frames : f.brightness \in {10, 200} }

Actions == {"turn_off", "keep_on", "dismiss"}

\* what the person detector does with a frame: sees a person, sees nobody, or raises
Detections == {"person", "nobody", "error"}

\* the exception re-raised to the caller
Reraised(raised) == raised

\* "except Exception as e: logger.error(...)": the exception is logged and does not
\* leave the method; TRUE when an exception escapes to the caller
Caught(raised) == FALSE

\* detect_person_in_frame: its result; an exception inside is answered with False
detect_person_in_frame(detection) ==
    IF Caught(detection = "error") THEN "raised" ELSE
    IF detection = "person" THEN "True" ELSE "False"

\* a notification id send_notification never returned: ids are int(time.time())
NoSuchId == 0
\* the ids a response may carry
ResponseIds == {NoSuchId, StartTime}

\* esp_light_control(action) was called by operation `by`
Esp(action, by) == [state |-> action, by |-> by]

\* log_automation_action: the row inserted, nothing when the database call fails
log_automation_action(action, db_ok) ==
    IF db_ok THEN << [action |-> action, room |-> "default"] >> ELSE <<>>

SetKey(d, k, v) == [x \in (DOMAIN d) \cup {k} |-> IF x = k THEN v ELSE d[x]]

ActiveTimers == { t \in 1..Len(timers) : timers[t].state = "active" }

\* get_light_status: the detector's committed state after analysing the frame
LightStatus(o) == o.current_state

\* get_light_status when analyze_frame may raise (on frame.copy(), before the
\* detector is touched): the fallback dictionary's status
get_light_status(o, classifier_ok) ==
    IF Caught(~classifier_ok) THEN "raised" ELSE
    IF classifier_ok THEN LightStatus(o) ELSE "unknown"

\* the status as an f-string prints it
StatusText(status) == IF status = None THEN "None" ELSE status

\* "if person_detected: ... if current_state == 'off'"
TurnsOn(status, person_detected) == person_detected /\ status = "off"

\* "elif current_state == 'on': if time_since_person > person_timeout"
TurnsOff(status, person_detected, last_motion) ==
    ~person_detected /\ status = "on" /\ now - last_motion > person_timeout

\* no response being handled, no callback running
Idle == [response |-> [at |-> "idle", action |-> "none"],
         timer |-> [at |-> "idle", cleared |-> FALSE]]

InitController ==
    /\ current_lighting_state = <<>>
    /\ last_motion_time = <<>>
    /\ lights_on = "absent"
    /\ pending_notification = "absent"
    /\ auto_turn_off_scheduled = 0
    /\ timers = <<>>
    /\ now = StartTime
    /\ notified = 0
    /\ seen = <<>>
    /\ last_op = [op |-> "init"]
    /\ pc = Idle
    /\ sampler = InitSampler

\* process_frame(frame, camera_id): the classifier works or raises, the person
\* detector answers or raises, the actuator and the log store work or fail
ProcessFrame(cam, f, classifier_ok, detection, esp_ok, db_ok) ==
    /\ detection_stats.total_frames_analyzed < MaxCtlFrames
    /\ \E o \in {AnalyzeOutcome(f)} :
       LET status == get_light_status(o, classifier_ok)
           person_detected == detect_person_in_frame(detection) = "True"
           known == cam \in DOMAIN current_lighting_state
           recorded == IF known THEN current_lighting_state[cam] ELSE status
           last_motion == IF known THEN last_motion_time[cam] ELSE 0
           turn_on == TurnsOn(status, person_detected)
           turn_off == TurnsOff(status, person_detected, last_motion)
           recorded2 == IF turn_on THEN "on" ELSE IF turn_off THEN "off" ELSE recorded
           commands == IF turn_on THEN <<Esp("on", "process_frame")>>
                       ELSE IF turn_off THEN <<Esp("off", "process_frame")>>
                       ELSE <<>>
           logs == status # recorded2
           rows == IF logs
                   THEN log_automation_action("lights_" \o StatusText(status), db_ok)
                   ELSE <<>>
           raised == \/ status = "raised"
                     \/ detect_person_in_frame(detection) = "raised"
                     \/ (commands # <<>> /\ Caught(~esp_ok))
                     \/ (logs /\ Caught(~db_ok))
           before == IF cam \in DOMAIN seen THEN seen[cam]
                     ELSE [always_present |-> TRUE, on_commands |-> 0]
       IN  /\ IF classifier_ok THEN ApplyAnalyze(o) ELSE UNCHANGED detVars
           /\ current_lighting_state' = SetKey(current_lighting_state, cam, recorded2)
           /\ last_motion_time' =
                  SetKey(last_motion_time, cam, IF person_detected THEN now ELSE last_motion)
           /\ seen' = SetKey(seen, cam,
                  [always_present |-> before.always_present /\ person_detected,
                   on_commands |-> before.on_commands + (IF turn_on THEN 1 ELSE 0)])
           /\ last_op' = [op |-> "process_frame", room |-> cam, status |-> status,
                          person |-> person_detected,
                          no_person_for |-> now - last_motion,
                          commands |-> commands, rows |-> rows,
                          \* the send_notification calls made: the method has none
                          notifications |-> <<>>,
                          raised |-> Caught(raised)]
    /\ UNCHANGED <<results, lights_on, pending_notification, auto_turn_off_scheduled,
                   timers, now, notified, pc, sampler>>

\* send_notification(message): posts the notification and returns its id, or None
SendNotification(sent_ok) ==
    /\ notified < MaxNotifications
    /\ notified' = IF sent_ok THEN notified + 1 ELSE notified
    /\ last_op' = [op |-> "send_notification", returned |-> IF sent_ok THEN now ELSE 0]
    /\ UNCHANGED <<detVars, results, current_lighting_state, last_motion_time, lights_on,
                   pending_notification, auto_turn_off_scheduled, timers, now, seen, pc, sampler>>

\* schedule_auto_turn_off(): a new started Timer replaces the stored handle
ScheduleAutoTurnOff ==
    /\ Len(timers) < MaxTimers
    /\ timers' = Append(timers, [state |-> "active", deadline |-> now + user_response_timeout])
    /\ auto_turn_off_scheduled' = Len(timers) + 1
    /\ last_op' = [op |-> "schedule_auto_turn_off", timer |-> Len(timers) + 1]
    /\ UNCHANGED <<detVars, results, current_lighting_state, last_motion_time, lights_on,
                   pending_notification, now, notified, seen, pc, sampler>>

\* Timer.cancel(): stops a timer that has not fired yet
Cancel(ts, t) ==
    IF ts[t].state = "active" THEN [ts EXCEPT ![t].state = "cancelled"] ELSE ts

\* "Cancel any scheduled auto turn-off" of handle_user_response: the timers afterwards
CancelScheduled(ts, handle) == IF handle # 0 THEN Cancel(ts, handle) ELSE ts

\* handle_user_response(notification_id, action); the id is only logged
HandleUserResponse(notification_id, action, esp_ok, db_ok) ==
    LET commands == IF action = "turn_off" THEN <<Esp("off", "handle_user_response")>>
                    ELSE <<>>
        rows == IF action = "turn_off" /\ esp_ok
                THEN log_automation_action("user_turn_off", db_ok)
                ELSE IF action = "keep_on"
                THEN log_automation_action("user_keep_on", db_ok)
                ELSE <<>>
    IN  /\ lights_on' = IF action = "turn_off" /\ esp_ok THEN "False" ELSE lights_on
        /\ pending_notification' = "None"
        /\ timers' = CancelScheduled(timers, auto_turn_off_scheduled)
        /\ auto_turn_off_scheduled' = 0
        /\ last_op' = [op |-> "handle_user_response", action |-> action, esp_ok |-> esp_ok,
                       active_before |-> ActiveTimers,
                       commands |-> commands, rows |-> rows,
                       raised |-> Caught(\/ (commands # <<>> /\ Caught(~esp_ok))
                                         \/ (action = "turn_off" /\ esp_ok /\ Caught(~db_ok))
                                         \/ (action = "keep_on" /\ Caught(~db_ok)))]
        /\ UNCHANGED <<detVars, results, current_lighting_state, last_motion_time, now,
                       notified, seen, pc, sampler>>

\* auto_turn_off, the Timer's callback, run when its interval has elapsed
TimerFire(t, esp_ok, db_ok) ==
    /\ t \in ActiveTimers
    /\ now >= timers[t].deadline
    /\ timers' = [timers EXCEPT ![t].state = "fired"]
    /\ lights_on' = IF esp_ok THEN "False" ELSE lights_on
    /\ pending_notification' = IF esp_ok THEN "None" ELSE pending_notification
    /\ last_op' = [op |-> "auto_turn_off", timer |-> t, esp_ok |-> esp_ok,
                   commands |-> <<Esp("off", "auto_turn_off")>>,
                   db_ok |-> db_ok,
                   rows |-> IF esp_ok THEN log_automation_action("auto_turn_off", db_ok)
                            ELSE <<>>,
                   raised |-> Caught(Caught(~esp_ok) \/ (esp_ok /\ Caught(~db_ok)))]
    /\ UNCHANGED <<detVars, results, current_lighting_state, last_motion_time,
                   auto_turn_off_scheduled, now, notified, seen, pc, sampler>>

\* the clock advances; a timer whose interval has elapsed runs before it advances
\* again, and a handler that has started returns before it does (its calls have
\* timeouts of 5 seconds)
Tick ==
    /\ now < StartTime + MaxTicks * TickStep
    /\ pc = Idle
    /\ \A t \in ActiveTimers : now < timers[t].deadline
    /\ now' = now + TickStep
    /\ last_op' = [op |-> "tick"]
    /\ UNCHANGED <<detVars, results, current_lighting_state, last_motion_time, lights_on,
                   pending_notification, auto_turn_off_scheduled, timers, notified, seen,
                   pc, sampler>>

Init ==
    /\ config = DefaultConfig
    /\ InitDetector
    /\ InitController

\* the camera feed: frames arrive while time passes (classifier, person detector,
\* actuator and log store answering)
NextFrames ==
    \/ \E cam \in Cameras, f \in CtlFrames, d \in {"person", "nobody"}, db \in BOOLEAN :
           ProcessFrame(cam, f, TRUE, d, TRUE, db)
    \/ Tick

\* one camera's feed with failing collaborators: the classifier or the person
\* detector raising, the actuator or the log store failing
NextFaults ==
    \/ \E f \in CtlFrames, c \in BOOLEAN, d \in Detections, ok \in BOOLEAN, db \in BOOLEAN :
           ProcessFrame("living_room", f, c, d, ok, db)
    \/ Tick

\* the notification workflow: its operations are called while time passes
NextNotify ==
    \/ \E ok \in BOOLEAN : SendNotification(ok)
    \/ ScheduleAutoTurnOff
    \/ \E id \in ResponseIds, a \in Actions, ok \in BOOLEAN, db \in BOOLEAN :
           HandleUserResponse(id, a, ok, db)
    \/ \E t \in 1..MaxTimers, ok \in BOOLEAN, db \in BOOLEAN : TimerFire(t, ok, db)
    \/ Tick

Next == NextFrames \/ NextNotify

Spec == Init /\ [][Next]_vars

\* process_frame reads and writes none of the notification workflow's fields, and the
\* workflow none of process_frame's: each is also checked on its own
SpecFrames == Init /\ [][NextFrames]_vars
SpecNotify == Init /\ [][NextNotify]_vars
SpecFaults == Init /\ [][NextFaults]_vars

----------------------------------------------------------------------------
(* handle_user_response and auto_turn_off statement by statement: the response  *)
(* is handled on its caller's thread, the callback runs on the Timer's thread,  *)
(* and the code takes no lock, so their statements interleave.                  *)

\* the fields the statements below leave alone
threadFrame == <<detVars, results, current_lighting_state, last_motion_time, notified, seen,
                 now, sampler>>

\* handle_user_response is entered: the branch on action (lines 235-247)
RespBegin(notification_id, action) ==
    /\ pc.response.at = "idle"
    /\ pc' = [pc EXCEPT !.response =
                 [at |-> IF action = "turn_off" THEN "esp"
                         ELSE IF action = "keep_on" THEN "log" ELSE "clear",
                  action |-> action]]
    /\ UNCHANGED <<threadFrame, lights_on, pending_notification, auto_turn_off_scheduled,
                   timers, last_op>>

\* success = self.esp_light_control('off') returns (line 239)
RespEsp(esp_ok) ==
    /\ pc.response.at = "esp"
    /\ pc' = [pc EXCEPT !.response.at = IF esp_ok THEN "set_off" ELSE "clear"]
    /\ last_op' = [op |-> "handle_user_response", action |-> pc.response.action,
                   esp_ok |-> esp_ok, active_before |-> ActiveTimers,
                   commands |-> <<Esp("off", "handle_user_response")>>, rows |-> <<>>,
                   raised |-> Caught(Caught(~esp_ok))]
    /\ UNCHANGED <<threadFrame, lights_on, pending_notification, auto_turn_off_scheduled,
                   timers>>

\* self.current_lighting_state['lights_on'] = False (line 241)
RespSetOff ==
    /\ pc.response.at = "set_off"
    /\ lights_on' = "False"
    /\ pc' = [pc EXCEPT !.response.at = "log"]
    /\ UNCHANGED <<threadFrame, pending_notification, auto_turn_off_scheduled, timers,
                   last_op>>

\* self.log_automation_action('user_turn_off' / 'user_keep_on', ...) (lines 245, 250)
RespLog(db_ok) ==
    /\ pc.response.at = "log"
    /\ pc' = [pc EXCEPT !.response.at = "clear"]
    /\ last_op' = [op |-> "handle_user_response", action |-> pc.response.action,
                   esp_ok |-> TRUE, active_before |-> ActiveTimers, commands |-> <<>>,
                   rows |-> log_automation_action(
                                IF pc.response.action = "turn_off" THEN "user_turn_off"
                                ELSE "user_keep_on", db_ok),
                   raised |-> Caught(Caught(~db_ok))]
    /\ UNCHANGED <<threadFrame, lights_on, pending_notification, auto_turn_off_scheduled,
                   timers>>

\* self.current_lighting_state['pending_notification'] = None (line 253)
RespClear ==
    /\ pc.response.at = "clear"
    /\ pending_notification' = "None"
    /\ pc' = [pc EXCEPT !.response.at = "cancel"]
    /\ UNCHANGED <<threadFrame, lights_on, auto_turn_off_scheduled, timers, last_op>>

\* the stored timer is cancelled and the handle cleared (lines 256-258); return
RespCancel ==
    /\ pc.response.at = "cancel"
    /\ timers' = CancelScheduled(timers, auto_turn_off_scheduled)
    /\ auto_turn_off_scheduled' = 0
    /\ pc' = [pc EXCEPT !.response = Idle.response]
    /\ UNCHANGED <<threadFrame, lights_on, pending_notification, last_op>>

\* the Timer's interval has elapsed and it was not cancelled: its thread calls
\* auto_turn_off (lines 267-269)
CallbackBegin(t) ==
    /\ pc.timer.at = "idle"
    /\ t \in ActiveTimers
    /\ now >= timers[t].deadline
    /\ timers' = [timers EXCEPT ![t].state = "fired"]
    /\ pc' = [pc EXCEPT !.timer = [at |-> "esp", cleared |-> pending_notification = "None"]]
    /\ UNCHANGED <<threadFrame, lights_on, pending_notification, auto_turn_off_scheduled,
                   last_op>>

\* success = self.esp_light_control('off') returns (line 270)
CallbackEsp(esp_ok) ==
    /\ pc.timer.at = "esp"
    /\ pc' = [pc EXCEPT !.timer = IF esp_ok THEN [@ EXCEPT !.at = "set_off"] ELSE Idle.timer]
    /\ last_op' = [op |-> "auto_turn_off", timer |-> 0, esp_ok |-> esp_ok, db_ok |-> TRUE,
                   commands |-> <<Esp("off", "auto_turn_off")>>, rows |-> <<>>,
                   raised |-> Caught(Caught(~esp_ok))]
    /\ UNCHANGED <<threadFrame, lights_on, pending_notification, auto_turn_off_scheduled,
                   timers>>

\* self.current_lighting_state['lights_on'] = False (line 272)
CallbackSetOff ==
    /\ pc.timer.at = "set_off"
    /\ lights_on' = "False"
    /\ pc' = [pc EXCEPT !.timer.at = "clear"]
    /\ UNCHANGED <<threadFrame, pending_notification, auto_turn_off_scheduled, timers,
                   last_op>>

\* self.current_lighting_state['pending_notification'] = None (line 273)
CallbackClear ==
    /\ pc.timer.at = "clear"
    /\ pending_notification' = "None"
    /\ pc' = [pc EXCEPT !.timer.at = "log"]
    /\ UNCHANGED <<threadFrame, lights_on, auto_turn_off_scheduled, timers, last_op>>

\* self.log_automation_action('auto_turn_off', ...) (line 276); return
CallbackLog(db_ok) ==
    /\ pc.timer.at = "log"
    /\ pc' = [pc EXCEPT !.timer = Idle.timer]
    /\ last_op' = [op |-> "auto_turn_off", timer |-> 0, esp_ok |-> TRUE, db_ok |-> db_ok,
                   commands |-> <<>>, rows |-> log_automation_action("auto_turn_off", db_ok),
                   raised |-> Caught(Caught(~db_ok))]
    /\ UNCHANGED <<threadFrame, lights_on, pending_notification, auto_turn_off_scheduled,
                   timers>>

NextThreads ==
    \/ ScheduleAutoTurnOff
    \/ \E id \in ResponseIds, a \in Actions : RespBegin(id, a)
    \/ \E ok \in BOOLEAN : RespEsp(ok)
    \/ RespSetOff
    \/ \E db \in BOOLEAN : RespLog(db)
    \/ RespClear
    \/ RespCancel
    \/ \E t \in 1..MaxTimers : CallbackBegin(t)
    \/ \E ok \in BOOLEAN : CallbackEsp(ok)
    \/ CallbackSetOff
    \/ CallbackClear
    \/ \E db \in BOOLEAN : CallbackLog(db)
    \/ Tick

SpecThreads == Init /\ [][NextThreads]_vars

----------------------------------------------------------------------------
(* The control loop of one room with every collaborator able to fail: frames of  *)
(* a dark room, responses and the timeout                                        *)

\* frames processed in the control loop, the four of the warm-up included
MaxLoopFrames == 5

\* the dark room's frame
DarkFrame == UniformFrame(10)

\* the controller after four frames of the dark, empty room and a call of
\* schedule_auto_turn_off: the classifier has just committed 'off', so the next
\* frame with a person switches the light on, and the countdown is running
InitLoop ==
    /\ config = DefaultConfig
    /\ current_state = "off"
    /\ frames_in_current_state = 1
    /\ brightness_history = <<10, 10, 10, 10>>
    /\ detection_stats = [total_frames_analyzed |-> 4, state_changes_detected |-> 1]
    /\ results = <<>>
    /\ current_lighting_state = [r \in {"living_room"} |-> None]
    /\ last_motion_time = [r \in {"living_room"} |-> 0]
    /\ lights_on = "absent"
    /\ pending_notification = "absent"
    /\ auto_turn_off_scheduled = 1
    /\ timers = <<[state |-> "active", deadline |-> StartTime + user_response_timeout]>>
    /\ now = StartTime
    /\ notified = 0
    /\ seen = [r \in {"living_room"} |-> [always_present |-> FALSE, on_commands |-> 0]]
    /\ last_op = [op |-> "schedule_auto_turn_off", timer |-> 1]
    /\ pc = Idle
    /\ sampler = InitSampler

NextLoop ==
    \/ \E c \in BOOLEAN, d \in Detections, ok \in BOOLEAN, db \in BOOLEAN :
           /\ detection_stats.total_frames_analyzed < MaxLoopFrames
           /\ ProcessFrame("living_room", DarkFrame, c, d, ok, db)
    \/ \E a \in Actions, ok \in BOOLEAN, db \in BOOLEAN :
           HandleUserResponse(StartTime, a, ok, db)
    \/ \E t \in 1..MaxTimers, ok \in BOOLEAN, db \in BOOLEAN : TimerFire(t, ok, db)
    \/ Tick

SpecLoop == InitLoop /\ [][NextLoop]_vars

----------------------------------------------------------------------------
(* The classifier on its own *)

\* LightDetector.analyze_frame called directly on the detector
AnalyzeFrame(f) ==
    /\ Len(results) < MaxFrames
    /\ \E o \in {AnalyzeOutcome(f)} :
           /\ ApplyAnalyze(o)
           /\ results' = Append(results, o.result)
    /\ UNCHANGED ctlVars

InitDet ==
    /\ config \in DetectorConfigs
    /\ InitDetector
    /\ InitController

NextDet == \E f \in Frames : AnalyzeFrame(f)

SpecDet == InitDet /\ [][NextDet]_vars

----------------------------------------------------------------------------
(* Properties of the classifier, over the calls made so far (SpecDet) *)

\* C1: whenever current_state changes to a new value S on some frame, the last
\* stability_frames analysed frames up to and including that frame were all
\* classified S, from every starting state, the initial unknown state included.
C1_CommitOnlyAfterAgreeingFrames ==
    \A i \in 1..Len(results) :
        results[i].state_changed =>
            /\ i >= config.stability_frames
            /\ \A j \in (i - config.stability_frames + 1)..i :
                   results[j].classification = results[i].lighting_state

\* C9: a fresh detector with thresholds 50/120 and stability_frames = 3, fed frames
\* of brightness 200, reports 'on' from frame 3 onward and state_changed is true on
\* frame 3 and on no other frame.
C9_BrightTraceOnFromFrameThree ==
    \A i \in 1..Len(results) :
        (/\ config = DefaultConfig
         /\ \A j \in 1..i : results[j].frame = UniformFrame(200))
        => /\ (i >= 3 => results[i].lighting_state = "on")
           /\ (results[i].state_changed <=> i = 3)

\* C10: after stability_frames consecutive frames whose brightness is strictly
\* below brightness_threshold_low, the committed state is 'off', whatever the
\* state before the run and however the values vary below the threshold.
C10_DarkRunCommitsOff ==
    \A i \in 1..Len(results) :
        (/\ i >= config.stability_frames
         /\ \A j \in (i - config.stability_frames + 1)..i :
                results[j].frame.brightness < brightness_threshold_low)
        => results[i].lighting_state = "off"

----------------------------------------------------------------------------
(* The classifier on a longer feed of uniform frames around the low threshold *)

\* frames analysed in the longer feed
MaxFeedFrames == 7

\* uniform frames: dark, just below and just above brightness_threshold_low, lit
FeedFrames ==
    { UniformFrame(b) : b \in {10, brightness_threshold_low - 1,
                               brightness_threshold_low + 1, 200} }

\* LightDetector.analyze_frame called on the next frame of the feed
AnalyzeFeedFrame(f) ==
    /\ Len(results) < MaxFeedFrames
    /\ \E o \in {AnalyzeOutcome(f)} :
           /\ ApplyAnalyze(o)
           /\ results' = Append(results, o.result)
    /\ UNCHANGED ctlVars

NextFeed == \E f \in FeedFrames : AnalyzeFeedFrame(f)

SpecFeed == Init /\ [][NextFeed]_vars

\* the frames k..i alternate between threshold_low - 1 and threshold_low + 1
Oscillates(k, i) ==
    /\ \A j \in k..i : results[j].frame.brightness \in
                           {brightness_threshold_low - 1, brightness_threshold_low + 1}
    /\ \A j \in k..(i - 1) : results[j].frame # results[j + 1].frame

\* C11: from a committed state (on or off), while the frames alternate between
\* brightness_threshold_low - 1 and brightness_threshold_low + 1 (inside the
\* hysteresis-adjusted band), current_state does not change, with all three
\* detection methods enabled.  Stated for the runs of at least stability_frames
\* alternating frames, so that the frames of the run alone fill the debounce.
C11_NoFlickerNearLowThreshold ==
    \A k \in 1..Len(results) : \A i \in k..Len(results) :
        (/\ results[k].previous_state \in {"on", "off"}
         /\ i - k + 1 >= config.stability_frames
         /\ Oscillates(k, i))
        => results[i].lighting_state = results[k].previous_state

\* the brightness values pushed so far, oldest first
Pushed == [i \in 1..Len(results) |-> results[i].frame.brightness]

\* the last n elements of a sequence
LastN(s, n) == SubSeq(s, Len(s) - n + 1, Len(s))

\* C12: after every push the brightness history holds at most
\* temporal_window_size samples, namely the most recent ones in arrival order
\* (oldest evicted first); stability_score is 0 on every push that leaves the
\* window short of temporal_window_size samples and non-negative on every push.
C12_WindowBoundedFifo ==
    /\ Len(brightness_history) <= config.temporal_window_size
    /\ brightness_history =
           LastN(Pushed, IF Len(Pushed) < config.temporal_window_size
                         THEN Len(Pushed) ELSE config.temporal_window_size)
    /\ \A i \in 1..Len(results) :
           /\ results[i].temporal_changes.stability_score >= 0
           /\ i < config.temporal_window_size =>
                  results[i].temporal_changes.stability_score = 0

\* a sample has been evicted and the full window reported a positive score
C12_Witness ==
    /\ Len(results) > config.temporal_window_size
    /\ Head(brightness_history) # results[1].frame.brightness
    /\ results[Len(results)].temporal_changes.stability_score > 0

----------------------------------------------------------------------------
(* Properties of the controller's frame path (SpecFrames) *)

IssuedOff(op) == \E i \in 1..Len(op.commands) : op.commands[i].state = "off"

\* C3: while every processed frame of a room shows a person, the actuator 'on'
\* command is issued once and never re-issued by a later frame.
C3_OnIssuedOnce ==
    \A cam \in DOMAIN seen : seen[cam].always_present => seen[cam].on_commands <= 1

\* C5: every actuator 'off' command is issued by a turn_off response or by the
\* response timeout of a Notification created before; processing a frame never
\* issues 'off' by itself.
C5_OffOnlyThroughWorkflow ==
    last_op.op \in {"process_frame", "handle_user_response", "auto_turn_off"} =>
        \A i \in 1..Len(last_op.commands) :
            last_op.commands[i].state = "off" =>
                /\ last_op.commands[i].by \in {"handle_user_response", "auto_turn_off"}
                /\ notified >= 1

\* C6: a frame processed while the lights are on, nobody has been seen for longer
\* than the timeout and no Notification is pending creates one Notification and
\* starts the auto-turn-off countdown.
C6_TimeoutFrameNotifies ==
    (/\ last_op.op = "process_frame"
     /\ last_op.status = "on"
     /\ ~last_op.person
     /\ last_op.no_person_for > person_timeout)
    => /\ notified = 1
       /\ auto_turn_off_scheduled \in ActiveTimers

\* C8: a room that got its 'on' command from a frame with a person and then sees
\* no-person frames for 125 seconds has had exactly one Notification created.
C8_NotificationAfter125Seconds ==
    \A cam \in DOMAIN seen :
        (/\ seen[cam].on_commands = 1
         /\ current_lighting_state[cam] = "on"
         /\ last_op.op = "process_frame"
         /\ last_op.room = cam
         /\ ~last_op.person
         /\ last_motion_time[cam] > 0
         /\ now - last_motion_time[cam] >= 125)
        => notified = 1

\* C18: rooms are independent: a frame processed for the kitchen leaves the
\* living room's record and last-person time unchanged, and leaves unchanged the
\* committed lighting state, the debounce counter and the temporal window that
\* the living room's next frame is evaluated against.
C18_RoomsIndependent ==
    [][\A f \in CtlFrames, d \in {"person", "nobody"}, db \in BOOLEAN :
           ProcessFrame("kitchen", f, TRUE, d, TRUE, db) =>
               /\ UNCHANGED <<current_state, frames_in_current_state, brightness_history>>
               /\ "living_room" \in DOMAIN current_lighting_state =>
                      /\ current_lighting_state'["living_room"] =
                             current_lighting_state["living_room"]
                      /\ last_motion_time'["living_room"] =
                             last_motion_time["living_room"]]_vars

----------------------------------------------------------------------------
(* Properties of the notification workflow (SpecNotify) *)

\* C2: a room has at most one pending Notification and at most one active
\* (started, not fired, not cancelled) turn-off timer.
C2_AtMostOneActiveTimer ==
    /\ Cardinality(ActiveTimers) <= 1
    /\ pending_notification \in {"absent", "None"}

\* C4: once a turn_off response to a Notification has returned, no auto-turn-off
\* scheduled for a Notification is left to fire when the response timeout elapses.
C4_TurnOffResponseLeavesNoTimer ==
    (/\ last_op.op = "handle_user_response"
     /\ last_op.action = "turn_off"
     /\ notified >= Len(timers))
    => /\ ActiveTimers = {}
       /\ Len(last_op.commands) = 1

\* C7: when the response timeout fires, 'off' is issued, lights_on becomes false,
\* the pending Notification is cleared and an auto_turn_off row is logged (the
\* row, when the log store accepts it).
C7_TimeoutTurnsOffAndClears ==
    last_op.op = "auto_turn_off" =>
        /\ IssuedOff(last_op)
        /\ lights_on = "False"
        /\ pending_notification = "None"
        /\ (last_op.db_ok => \E i \in 1..Len(last_op.rows) :
                                 last_op.rows[i].action = "auto_turn_off")

\* C15: a response carrying a notification id that was never issued (or whose
\* Notification is gone) is ignored, whatever the action: no actuator command,
\* no timer cancelled, lights_on and the pending Notification left as they were.
C15_UnknownIdIgnored ==
    [][\A a \in Actions, ok \in BOOLEAN, db \in BOOLEAN :
           HandleUserResponse(NoSuchId, a, ok, db) =>
               /\ last_op'.commands = <<>>
               /\ timers' = timers
               /\ lights_on' = lights_on
               /\ pending_notification' = pending_notification]_vars

\* C16: a response to the pending Notification (sent and scheduled at StartTime,
\* its id the one send_notification returned; actuator and log store working)
\* cancels the scheduled timer, clears the pending Notification and writes an
\* audit row; it issues 'off' and sets lights_on false exactly for turn_off, and
\* for keep_on and dismiss it issues no command and leaves lights_on unchanged.
C16_ResponseHandled ==
    [][\A a \in Actions :
           (/\ now = StartTime
            /\ notified >= 1
            /\ auto_turn_off_scheduled \in ActiveTimers
            /\ HandleUserResponse(StartTime, a, TRUE, TRUE))
           => /\ timers'[auto_turn_off_scheduled].state = "cancelled"
              /\ pending_notification' = "None"
              /\ last_op'.rows # <<>>
              /\ (IssuedOff(last_op') <=> a = "turn_off")
              /\ (a = "turn_off" => lights_on' = "False")
              /\ (a # "turn_off" => lights_on' = lights_on)]_vars

----------------------------------------------------------------------------
(* Properties of the controller with failing collaborators (SpecFaults) *)

\* the room of the single feed
Room == "living_room"

\* C17: an operation whose actuator call fails leaves the room's recorded light
\* value exactly as it was before the call: the record of process_frame for the
\* room, lights_on for a response and for the timer callback.
C17_FailedActuatorLeavesRecord ==
    [][/\ \A f \in CtlFrames, c \in BOOLEAN, d \in Detections, db \in BOOLEAN :
              (/\ ProcessFrame(Room, f, c, d, FALSE, db)
               /\ last_op'.commands # <<>>
               /\ Room \in DOMAIN current_lighting_state)
              => current_lighting_state'[Room] = current_lighting_state[Room]
       /\ \A id \in ResponseIds, db \in BOOLEAN :
              HandleUserResponse(id, "turn_off", FALSE, db) => lights_on' = lights_on
       /\ \A t \in 1..MaxTimers, db \in BOOLEAN :
              TimerFire(t, FALSE, db) => lights_on' = lights_on]_vars

\* C20: a frame on which the person detector raised has no effect: no actuator
\* command, no Notification, and the room's record and last-person time stay as
\* they were.
C20_FailedDetectionNoEffect ==
    [][\A f \in CtlFrames, c \in BOOLEAN, ok \in BOOLEAN, db \in BOOLEAN :
           ProcessFrame(Room, f, c, "error", ok, db) =>
               /\ last_op'.commands = <<>>
               /\ notified' = notified
               /\ Room \in DOMAIN current_lighting_state =>
                      /\ current_lighting_state'[Room] = current_lighting_state[Room]
                      /\ last_motion_time'[Room] = last_motion_time[Room]]_vars

----------------------------------------------------------------------------
(* Properties of the interleaved response and callback (SpecThreads) *)

\* a thread is between its first and its last access to the room's state
InSection(thread) == pc[thread].at # "idle"

\* C13: the accesses to the room's state made by handle_user_response and by the
\* auto-turn-off callback are mutually exclusive: the two are never inside their
\* state-mutating sections at the same time.
C13_MutualExclusion == ~(InSection("response") /\ InSection("timer"))

\* C14: a callback that starts after the Notification was cleared does nothing:
\* it issues no actuator command and writes no field of the room's state.
C14_CallbackNoOpWhenCleared ==
    [][pc.timer.cleared =>
           /\ \A ok \in BOOLEAN : ~CallbackEsp(ok)
           /\ ~CallbackSetOff
           /\ ~CallbackClear]_vars

----------------------------------------------------------------------------
(* Properties of the control loop with failing collaborators (SpecLoop) *)

\* the state the control loop starts from is one the frame path reaches
InitLoopReached == InitLoop

----------------------------------------------------------------------------
(* One room's frames while notifications are sent and a long time passes *)

\* nothing happens for longer than person_timeout
Elapse ==
    /\ now < StartTime + person_timeout
    /\ pc = Idle
    /\ ActiveTimers = {}
    /\ now' = now + person_timeout + 1
    /\ last_op' = [op |-> "elapse"]
    /\ UNCHANGED <<detVars, results, current_lighting_state, last_motion_time, lights_on,
                   pending_notification, auto_turn_off_scheduled, timers, notified, seen,
                   pc, sampler>>

NextResend ==
    \/ \E f \in CtlFrames, d \in {"person", "nobody"} :
           ProcessFrame(Room, f, TRUE, d, TRUE, TRUE)
    \/ \E ok \in BOOLEAN : SendNotification(ok)
    \/ Tick
    \/ Elapse

SpecResend == Init /\ [][NextResend]_vars

\* C21: after a send that failed no pending Notification is recorded, and the
\* next frame that shows the lights on with nobody seen for longer than the
\* timeout makes a new notification attempt.
C21_FailedSendRetried ==
    [][(/\ last_op.op = "send_notification"
        /\ last_op.returned = 0
        /\ last_op'.op = "process_frame"
        /\ last_op'.status = "on"
        /\ ~last_op'.person
        /\ last_motion_time[Room] > 0
        /\ last_op'.no_person_for > person_timeout)
       => /\ pending_notification \in {"absent", "None"}
          /\ last_op'.notifications # <<>>]_vars

\* C27: in a room where no person was ever detected the timeout runs from the
\* moment the lights were first detected on: a frame processed when the
\* controller has not yet existed for longer than person_timeout (so the lights
\* cannot have been seen on for longer) produces no 'off' command and no
\* Notification, the first frame that shows the lights on included.
C27_NeverSeenRoomTimedFromLightsOn ==
    (/\ last_op.op = "process_frame"
     /\ last_motion_time[Room] = 0
     /\ now - StartTime <= person_timeout)
    => /\ ~IssuedOff(last_op)
       /\ last_op.notifications = <<>>

----------------------------------------------------------------------------
(* Detectors built from the dictionaries callers hand to the constructor *)

\* "self.config = {**default_config, **(config or {})}": the caller's entries
\* replace the defaults, nothing is checked
MergeConfig(user_config) ==
    [k \in DOMAIN DefaultConfig |->
        IF k \in DOMAIN user_config THEN user_config[k] ELSE DefaultConfig[k]]

\* dictionaries a caller may pass: any choice of voting methods, and thresholds
\* with high below low or equal to it
UserConfigs ==
    { [detection_methods |-> m] : m \in SUBSET AllMethods }
    \cup { [brightness_threshold_low |-> 120, brightness_threshold_high |-> 50],
           [brightness_threshold_low |-> 80, brightness_threshold_high |-> 80] }

InitConfigured ==
    /\ config \in { MergeConfig(u) : u \in UserConfigs }
    /\ InitDetector
    /\ InitController

SpecConfigured == InitConfigured /\ [][NextDet]_vars

\* C22: a configuration whose high threshold is not above its low threshold is
\* rejected by the constructor: no detector built from one ever classifies a frame.
C22_InvalidThresholdsRejected ==
    results # <<>> => config.brightness_threshold_high > config.brightness_threshold_low

----------------------------------------------------------------------------
(* Unreadable frames (SpecFaults) *)

\* C23: a frame analyze_frame cannot read is an error for the caller and mutates
\* nothing: the detector's committed state, debounce counter, brightness history
\* and counters are as before, and the controller that asked for the
\* classification does not carry on with a status of 'unknown' as if the frame
\* had been classified.
C23_UnreadableFrameSignalled ==
    [][\A f \in CtlFrames, d \in Detections, ok \in BOOLEAN, db \in BOOLEAN :
           ProcessFrame(Room, f, FALSE, d, ok, db) =>
               /\ UNCHANGED <<current_state, frames_in_current_state,
                              brightness_history, detection_stats>>
               /\ last_op'.status # "unknown"]_vars

----------------------------------------------------------------------------
(* Properties of the frame sampler (SpecSampler) *)

SpecSampler == Init /\ [][NextSampler]_vars

\* C24: a frame is processed exactly when the motion ratio exceeds
\* motion_threshold with at least min_frame_gap frames elapsed since the last
\* processed frame, or max_frame_gap frames have elapsed, or it is the first
\* frame; the last-processed index becomes the frame's index exactly then.
C24_SamplerDecision ==
    sampler.decided # <<>> =>
        LET d == sampler.decided[1]
            elapsed == d.frame_number - d.last_processed_frame
        IN  /\ d.process_this_frame <=>
                   \/ (d.since_previous > MOTION_THRESHOLD /\ elapsed >= MIN_FRAME_GAP)
                   \/ elapsed >= FRAME_INTERVAL
                   \/ d.frame_number = 0
            /\ sampler.last_processed_frame =
                   IF d.process_this_frame THEN d.frame_number ELSE d.last_processed_frame

\* a still scene has been processed because max_frame_gap frames had elapsed
C24_Witness ==
    /\ sampler.decided # <<>>
    /\ sampler.decided[1].process_this_frame
    /\ sampler.decided[1].since_previous = 0
    /\ sampler.decided[1].frame_number >= FRAME_INTERVAL

\* C25: the motion ratio the decision about a frame uses is the one between that
\* frame and the frame processed last.
C25_MotionAgainstSampledFrame ==
    (sampler.decided # <<>> /\ sampler.decided[1].checks_motion) =>
        sampler.decided[1].motion_score = sampler.decided[1].since_sampled

----------------------------------------------------------------------------
(* Properties of the classification under every configuration (SpecConfigured) *)

\* C26: when no method casts a vote, because every enabled method abstains or
\* none is enabled, the classification is 'unknown' with confidence 0; every
\* classification is one of on, off, unknown and its confidence lies between 0
\* and 1 (60 sixtieths).
C26_ClassificationTotal ==
    \A i \in 1..Len(results) :
        /\ results[i].votes = <<>> =>
               /\ results[i].classification = "unknown"
               /\ results[i].state_confidence = 0
        /\ results[i].classification \in {"on", "off", "unknown"}
        /\ results[i].state_confidence >= 0
        /\ results[i].state_confidence <= 60

\* every enabled method abstained on a frame, and on another frame two methods
\* voted for the state that won
C26_Witness ==
    /\ config.detection_methods # {}
    /\ \E i \in 1..Len(results) : results[i].votes = <<>>
    /\ \E i \in 1..Len(results) :
           Len(WeightsFor(results[i].votes, results[i].classification)) >= 2

\* C28: the brightness vote: the high threshold is raised by the hysteresis margin
\* when the committed state is off and the low threshold lowered by it when the
\* state is on; the vote is (off, 0.8) below the effective low threshold,
\* (on, 0.8) above the effective high one, and otherwise (current_state, 0.3) or,
\* with no state committed, (unknown, 0.1).  From off a brightness in
\* (high, high + h] gets no 'on' vote, from on a brightness in [low - h, low) no
\* 'off' vote.
C28_BrightnessVoteHysteresis ==
    \A i \in 1..Len(results) :
        "brightness" \in config.detection_methods =>
            LET cur == results[i].previous_state
                b == results[i].frame.brightness
                low == config.brightness_threshold_low
                high == config.brightness_threshold_high
                h == config.brightness_hysteresis
                effective_low == IF cur = "on" THEN low - h ELSE low
                effective_high == IF cur = "off" THEN high + h ELSE high
                vote == results[i].votes[1]
            IN  /\ b < effective_low => vote = <<"off", 8>>
                /\ (b >= effective_low /\ b > effective_high) => vote = <<"on", 8>>
                /\ (b >= effective_low /\ b <= effective_high) =>
                       vote = IF cur # None THEN <<cur, 3>> ELSE <<"unknown", 1>>
                /\ (cur = "off" /\ b > high /\ b <= high + h) => vote[1] # "on"
                /\ (cur = "on" /\ b >= low - h /\ b < low) => vote[1] # "off"

\* from the committed state off, a frame whose brightness lies in (high, high + h]
\* has been voted (off, 0.3)
C28_Witness ==
    /\ config.brightness_threshold_high > config.brightness_threshold_low
    /\ \E i \in 1..Len(results) :
           /\ results[i].previous_state = "off"
           /\ results[i].frame.brightness > config.brightness_threshold_high
           /\ results[i].frame.brightness <=
                  config.brightness_threshold_high + config.brightness_hysteresis
           /\ results[i].votes[1] = <<"off", 3>>

\* the votes of v cast for state s: how many, their summed weight (tenths), and
\* the position of the first
VoteCount(v, s) == Cardinality({ k \in 1..Len(v) : v[k][1] = s })
VoteSum(v, s) == SumSeq(WeightsFor(v, s))
FirstVote(v, s) == CHOOSE k \in 1..Len(v) : v[k][1] = s /\ \A j \in 1..(k - 1) : v[j][1] # s

\* C29: for every non-empty list of votes the classification is a voted state
\* whose average weight is maximal among the voted states, the confidence is that
\* average, and among states of equal average the one voted first is chosen.
C29_VoteAggregation ==
    \A i \in 1..Len(results) :
        results[i].votes # <<>> =>
            LET v == results[i].votes
                c == results[i].classification
                voted == { v[k][1] : k \in 1..Len(v) }
            IN  /\ c \in voted
                /\ \A t \in voted :
                       VoteSum(v, c) * VoteCount(v, t) >= VoteSum(v, t) * VoteCount(v, c)
                /\ results[i].state_confidence * VoteCount(v, c) = VoteSum(v, c) * 6
                /\ \A t \in voted \ {c} :
                       VoteSum(v, t) * VoteCount(v, c) = VoteSum(v, c) * VoteCount(v, t)
                           => FirstVote(v, c) < FirstVote(v, t)

\* two states tied on their average (0.8 against the mean of 0.7 and 0.9)
C29_Witness ==
    \E i \in 1..Len(results) :
        LET v == results[i].votes
        IN  \E k \in 1..Len(v) :
                /\ v[k][1] # results[i].classification
                /\ VoteSum(v, v[k][1]) * VoteCount(v, results[i].classification) =
                       VoteSum(v, results[i].classification) * VoteCount(v, v[k][1])

----------------------------------------------------------------------------
(* The debounce step (SpecDet) *)

\* C30: a frame classified on or off, differently from current_state, increments
\* frames_in_current_state; the new state is committed (current_state updated,
\* state_changes_detected incremented) on the frame at which the counter reaches
\* stability_frames, and the counter is then 1.  A frame classified as
\* current_state sets the counter to 0 and commits nothing.
C30_DebounceStep ==
    [][\A f \in Frames :
           AnalyzeFrame(f) =>
               LET c == results'[Len(results')].classification
                   reaches == frames_in_current_state + 1 >= config.stability_frames
                   changes == detection_stats.state_changes_detected
                   changes_after == detection_stats'.state_changes_detected
               IN  /\ (c \in {"on", "off"} /\ c # current_state /\ reaches) =>
                          /\ current_state' = c
                          /\ frames_in_current_state' = 1
                          /\ changes_after = changes + 1
                   /\ (c \in {"on", "off"} /\ c # current_state /\ ~reaches) =>
                          /\ current_state' = current_state
                          /\ frames_in_current_state' = frames_in_current_state + 1
                          /\ changes_after = changes
                   /\ c = current_state =>
                          /\ current_state' = current_state
                          /\ frames_in_current_state' = 0
                          /\ changes_after = changes]_vars

----------------------------------------------------------------------------
(* Detectors with short temporal windows *)

\* frames analysed by one detector of this specification
MaxWindowFrames == 4

InitWindows ==
    /\ config \in { MergeConfig([temporal_window_size |-> w]) : w \in 1..3 }
    /\ InitDetector
    /\ InitController

\* LightDetector.analyze_frame called directly on the detector
AnalyzeWindowFrame(f) ==
    /\ Len(results) < MaxWindowFrames
    /\ \E o \in {AnalyzeOutcome(f)} :
           /\ ApplyAnalyze(o)
           /\ results' = Append(results, o.result)
    /\ UNCHANGED ctlVars

NextWindows == \E f \in Frames : AnalyzeWindowFrame(f)

SpecWindows == InitWindows /\ [][NextWindows]_vars

\* C31: for every window capacity, capacity 1 included, brightness_change is 0
\* on the first push and on every later push the pushed value minus the value
\* pushed before it; significant_change holds exactly when its absolute value
\* exceeds brightness_change_threshold, and change_direction is the sign of the
\* change when it is significant and 'none' otherwise.
C31_TemporalSignals ==
    \A i \in 1..Len(results) :
        LET tc == results[i].temporal_changes
            change == IF i = 1 THEN 0
                      ELSE results[i].frame.brightness - results[i - 1].frame.brightness
        IN  /\ tc.brightness_change = change
            /\ tc.significant_change <=> Abs(change) > brightness_change_threshold
            /\ tc.change_direction =
                   IF Abs(change) <= brightness_change_threshold THEN "none"
                   ELSE IF change > 0 THEN "increase" ELSE "decrease"

----------------------------------------------------------------------------
(* reset_state between the frames of one detector *)

\* frames analysed and resets made in this specification
MaxResetFrames == 4
MaxResets == 2

\* the fields __init__ gives a new detector
FreshDetector ==
    [history |-> <<>>,
     current_state |-> None,
     frames |-> 0,
     stats |-> [total_frames_analyzed |-> 0, state_changes_detected |-> 0]]

\* a reset that leaves the temporal window as it is
reset_state_keeping_window(d) ==
    [history |-> d.history,
     current_state |-> None,
     frames |-> 0,
     stats |-> [total_frames_analyzed |-> 0, state_changes_detected |-> 0]]

\* reset_state(): the detector fields afterwards
reset_state(d) ==
    [history |-> <<>>,
     current_state |-> None,
     frames |-> 0,
     stats |-> [total_frames_analyzed |-> 0, state_changes_detected |-> 0]]

\* how many resets were made so far
Resets == IF last_op.op = "reset_state" THEN last_op.resets ELSE 0

\* detector.reset_state() called between two frames; last_op keeps the number of
\* frames analysed before the latest reset
ResetState ==
    /\ Resets < MaxResets
    /\ \E d \in {reset_state(Detector)} :
           /\ brightness_history' = d.history
           /\ current_state' = d.current_state
           /\ frames_in_current_state' = d.frames
           /\ detection_stats' = d.stats
    /\ last_op' = [op |-> "reset_state", at |-> Len(results), resets |-> Resets + 1]
    /\ UNCHANGED <<config, results, current_lighting_state, last_motion_time, lights_on,
                   pending_notification, auto_turn_off_scheduled, timers, now, notified,
                   seen, pc, sampler>>

\* LightDetector.analyze_frame called directly on the detector
AnalyzeResetFrame(f) ==
    /\ Len(results) < MaxResetFrames
    /\ \E o \in {AnalyzeOutcome(f)} :
           /\ ApplyAnalyze(o)
           /\ results' = Append(results, o.result)
    /\ UNCHANGED ctlVars

NextReset ==
    \/ \E f \in Frames : AnalyzeResetFrame(f)
    \/ ResetState

SpecReset == InitDet /\ [][NextReset]_vars

\* a detector with fields d analyses the frames fs one after the other: its
\* fields at the end and the results it returned
RECURSIVE RunFrom(_, _, _)
RunFrom(d, fs, cfg) ==
    IF fs = <<>> THEN [detector |-> d, outputs |-> <<>>]
    ELSE LET o == AnalyzeFrom(d, Head(fs), cfg)
             rest == RunFrom([history |-> o.history, current_state |-> o.current_state,
                              frames |-> o.frames, stats |-> o.stats],
                             Tail(fs), cfg)
         IN  [detector |-> rest.detector, outputs |-> <<o.result>> \o rest.outputs]

\* C32: after any frames followed by reset_state the detector is as constructed
\* (state unknown, counter 0, window empty, counters zero), a second reset
\* changes nothing, and the frames analysed after the reset get the results, and
\* leave the detector in the state, that a new detector with the same
\* configuration would give.
C32_ResetRestoresFreshDetector ==
    last_op.op = "reset_state" =>
        LET since == SubSeq(results, last_op.at + 1, Len(results))
            fresh == RunFrom(FreshDetector, [i \in 1..Len(since) |-> since[i].frame], config)
        IN  /\ since = fresh.outputs
            /\ Detector = fresh.detector

\* a detector that had committed a state was reset twice and then committed again
C32_Witness ==
    /\ last_op.op = "reset_state"
    /\ last_op.resets = 2
    /\ last_op.at >= 1
    /\ results[last_op.at].lighting_state # None
    /\ Len(results) > last_op.at
    /\ brightness_history # <<>>

----------------------------------------------------------------------------
(* The audit log of the frame path (SpecFrames) *)

\* C33: with the actuator and the log store working, a processed frame writes
\* one audit row for each actuator command it issues, tagged with the command
\* issued ('on' as lights_on, 'off' as lights_off) and with the frame's room, and
\* writes no row when it issues no command.
C33_CommandsAudited ==
    [][\A cam \in Cameras, f \in CtlFrames, d \in {"person", "nobody"} :
           ProcessFrame(cam, f, TRUE, d, TRUE, TRUE) =>
               /\ Len(last_op'.rows) = Len(last_op'.commands)
               /\ \A i \in 1..Len(last_op'.commands) :
                      /\ i <= Len(last_op'.rows)
                      /\ last_op'.rows[i].action = "lights_" \o last_op'.commands[i].state
                      /\ last_op'.rows[i].room = cam]_vars

----------------------------------------------------------------------------
(* Rate bounds of the frame sampler (SpecSampler) *)

\* C34: two frames processed one after the other are at least min_frame_gap and
\* at most max_frame_gap frames apart, the first frame of a video is processed,
\* and no frame is skipped once max_frame_gap frames have gone by.
C34_SamplerRateBounds ==
    /\ sampler.frame_number - sampler.last_processed_frame <= FRAME_INTERVAL
    /\ sampler.decided # <<>> =>
           LET d == sampler.decided[1]
               elapsed == d.frame_number - d.last_processed_frame
           IN  /\ d.frame_number = 0 => d.process_this_frame
               /\ (d.process_this_frame /\ d.frame_number > 0) =>
                      /\ elapsed >= MIN_FRAME_GAP
                      /\ elapsed <= FRAME_INTERVAL

\* two frames in a row were processed for motion, min_frame_gap frames apart
C34_Witness ==
    /\ sampler.decided # <<>>
    /\ sampler.decided[1].process_this_frame
    /\ sampler.decided[1].last_processed_frame > 0
    /\ sampler.decided[1].frame_number - sampler.decided[1].last_processed_frame
           = MIN_FRAME_GAP

----------------------------------------------------------------------------
(* The recorded lights_on against the commands issued (SpecLoop) *)

\* the lights_on value that matches an actuator command
LightsOnAfter(command) == IF command.state = "on" THEN "True" ELSE "False"

\* C35: with every actuator call succeeding, once process_frame,
\* handle_user_response or the auto-turn-off callback has returned, the room's
\* recorded lights_on is the value of the latest actuator command: an operation
\* that issued a command leaves lights_on at that command's value.
C35_LightsOnFollowsCommands ==
    [][(\/ \E c \in BOOLEAN, d \in Detections, db \in BOOLEAN :
               ProcessFrame(Room, DarkFrame, c, d, TRUE, db)
        \/ \E a \in Actions, db \in BOOLEAN : HandleUserResponse(StartTime, a, TRUE, db)
        \/ \E t \in 1..MaxTimers, db \in BOOLEAN : TimerFire(t, TRUE, db))
       => (last_op'.commands # <<>> =>
               lights_on' = LightsOnAfter(last_op'.commands[Len(last_op'.commands)]))]_vars

----------------------------------------------------------------------------
(* Commit latency of the debounce (SpecDet) *)

\* frame m was classified on or off, differently from current_state
Differs(m) ==
    /\ results[m].classification \in {"on", "off"}
    /\ results[m].classification # results[m].previous_state

\* frames_in_current_state was 0 when frame k arrived: the detector was fresh, or
\* the frame before agreed with current_state
CounterZeroBefore(k) ==
    \/ k = 1
    \/ results[k - 1].classification = results[k - 1].previous_state

----------------------------------------------------------------------------
(* Frames classified 'unknown' (SpecDet) *)

\* C37: a frame classified 'unknown' leaves current_state, the debounce counter
\* and state_changes_detected as they were; total_frames_analyzed and the
\* temporal window advance.
C37_UnknownLeavesDebounce ==
    [][\A f \in Frames :
           (AnalyzeFrame(f) /\ results'[Len(results')].classification = "unknown") =>
               /\ current_state' = current_state
               /\ frames_in_current_state' = frames_in_current_state
               /\ detection_stats'.state_changes_detected =
                      detection_stats.state_changes_detected
               /\ detection_stats'.total_frames_analyzed =
                      detection_stats.total_frames_analyzed + 1
               /\ brightness_history' = PushHistory(brightness_history, f.brightness, config)]_vars

\* a frame was classified 'unknown' while a transition was pending
C37_Witness ==
    /\ results # <<>>
    /\ results[Len(results)].classification = "unknown"
    /\ frames_in_current_state > 0

----------------------------------------------------------------------------
(* The committed state under every configuration (SpecConfigured) *)

\* C38: current_state is unknown, on or off, and once it is on or off every
\* later frame leaves it on or off, whatever the frames and the enabled methods;
\* state_changed is true on exactly the frames that committed a transition, which
\* state_changes_detected counts.
C38_CommittedStateStays ==
    /\ current_state \in {None, "on", "off"}
    /\ \A i \in 1..Len(results) :
           /\ results[i].previous_state \in {"on", "off"} =>
                  results[i].lighting_state \in {"on", "off"}
           /\ results[i].state_changed <=>
                  results[i].lighting_state # results[i].previous_state
    /\ detection_stats.state_changes_detected =
           Cardinality({ i \in 1..Len(results) : results[i].state_changed })

\* a frame on which no method voted was analysed after a state had been committed
C38_Witness ==
    \E i \in 1..Len(results) :
        /\ results[i].previous_state \in {"on", "off"}
        /\ results[i].classification = "unknown"

\* the state a significant change votes for; with the temporal method enabled
\* that vote is cast, so at most one vote for the state means no other method
\* voted for it
TemporalState(tc) == IF tc.change_direction = "increase" THEN "on" ELSE "off"

\* C39: when the temporal method is enabled and the brightness changed
\* significantly, and neither the brightness nor the histogram method votes for
\* the state the change points to, the frame is classified as that state with
\* confidence 0.9 (54 sixtieths), whatever the other two methods vote.
C39_LoneTemporalVoteDecides ==
    \A i \in 1..Len(results) :
        LET tc == results[i].temporal_changes
            v == results[i].votes
        IN  (/\ "temporal" \in config.detection_methods
             /\ tc.significant_change
             /\ VoteCount(v, TemporalState(tc)) <= 1)
            => /\ results[i].classification = TemporalState(tc)
               /\ results[i].state_confidence = 54

\* a significant increase outvoted the brightness and histogram methods, which
\* both voted off
C39_Witness ==
    \E i \in 1..Len(results) :
        /\ results[i].temporal_changes.change_direction = "increase"
        /\ results[i].votes = << <<"off", 8>>, <<"off", 7>>, <<"on", 9>> >>
        /\ results[i].classification = "on"

====
